---- MODULE Spec2Model ----
(***************************************************************************)
(* Session orchestration layer of mcp-demo: MCPDataCenterManager           *)
(* (src/client.py) and its owner ImprovedDataCenter                        *)
(* (src/server_launcher.py).                                               *)
(*                                                                         *)
(* The orchestrator is one cooperative control flow: every operation is    *)
(* awaited by its caller, so one operation is in progress at a time and    *)
(* `op` is its frame.  An operation that awaits more than once is split at *)
(* its await points.  What the spawned backend answers is the input of     *)
(* each step.                                                              *)
(***************************************************************************)
EXTENDS Integers, Sequences, FiniteSets, TLC

\* ------------------------------------------------------------------------
\* Bounds
\* ------------------------------------------------------------------------
NumSources == 2      \* data-source names are 1..NumSources
MaxSpawns  == 3      \* subprocesses spawned over the life of the manager
MaxExits   == 2      \* times the manager's cleanup scope is exited
MaxDatasources == 3  \* entries of `datasources` in a configuration file
MaxValidated   == 2  \* entries of `datasources` where their fields vary
MaxServers     == 2  \* entries of `servers` in a configuration file

Names == 1..NumSources
Sids  == 1..MaxSpawns

\* ------------------------------------------------------------------------
\* Values
\* ------------------------------------------------------------------------
None == "None"
\* what read_resource can hand back as content: empty or not
Contents == {"", "rows"}
\* what list_resources can hand back: an empty or a non-empty listing
Listings == {"[]", "[uri]"}
\* what call_tool can hand back
ToolResults == {"result"}

\* Python truthiness of a returned value (None and empty content are falsy)
Truthy(v) == v # None /\ v # ""

\* the attributes class MCPDataCenterManager defines
ManagerMethods ==
    {"aenter", "aexit", "add_data_source", "list_all_resources",
     "query_resource", "call_tool", "cross_source_query"}

HasAttr(m) == m \in ManagerMethods

\* ------------------------------------------------------------------------
\* dicts (insertion-ordered): sequences of [k, v] with distinct keys
\* ------------------------------------------------------------------------
DictKeys(d) == {d[i].k : i \in 1..Len(d)}

DictHas(d, key) == key \in DictKeys(d)

DictGet(d, key) == d[CHOOSE i \in 1..Len(d) : d[i].k = key].v

DictSet(d, key, val) ==
    IF DictHas(d, key)
    THEN [i \in 1..Len(d) |-> IF d[i].k = key THEN [k |-> key, v |-> val] ELSE d[i]]
    ELSE Append(d, [k |-> key, v |-> val])

\* the request dicts handed to cross_source_query: distinct names, in order
QuerySets ==
    {q \in UNION {[1..n -> Names] : n \in 0..NumSources} :
        \A i, j \in 1..Len(q) : i # j => q[i] # q[j]}

\* ------------------------------------------------------------------------
\* Configuration model (src/config_loader.py)
\* ------------------------------------------------------------------------
\* a connection mapping is modelled by the set of its keys
Fields ==
    {"host", "port", "database", "username", "password", "database_path",
     "base_url", "endpoint", "api_key"}

\* the optional attributes of a DatabaseConfig
OptKeys == {"tables", "collections", "indices", "endpoints", "headers", "schemas"}

\* validate_config: required_fields
RequiredFields(type) ==
    CASE type \in {"postgresql", "mysql"} ->
             <<"host", "port", "database", "username", "password">>
      [] type = "sqlite"        -> <<"database_path">>
      [] type = "mongodb"       -> <<"host", "port", "database">>
      [] type \in {"redis", "elasticsearch"} -> <<"host", "port">>
      [] type = "rest_api"      -> <<"base_url">>
      [] type = "graphql"       -> <<"endpoint">>
      [] OTHER                  -> <<>>

Range(seq) == {seq[i] : i \in 1..Len(seq)}

RECURSIVE ConcatUpTo(_, _)
\* f[1] \o f[2] \o ... \o f[n]
ConcatUpTo(f, n) == IF n = 0 THEN <<>> ELSE ConcatUpTo(f, n - 1) \o f[n]

\* ConfigLoader.config before load_config ran
NoConfig == [loaded |-> FALSE, datasources |-> <<>>, servers |-> <<>>]

\* load_config lines 62-75: one DatabaseConfig from one entry of the file;
\* a key the entry lacks takes its default
LoadDatasource(e) ==
    [name       |-> e.name,
     type       |-> e.type,
     enabled    |-> IF e.enabled = "absent" THEN TRUE ELSE e.enabled = "true",
     connection |-> e.connection,
     opt        |-> [k \in OptKeys |-> IF e.opt[k] = "absent" THEN "None" ELSE e.opt[k]]]

\* load_config lines 81-85
LoadServer(e) ==
    [datasource |-> e.datasource,
     port       |-> e.port,
     log_level  |-> IF e.log_level = "absent" THEN "INFO" ELSE e.log_level]

\* load_config raises for a missing file (line 54) and for an entry without
\* a mandatory key (lines 63-64, 82-83)
Loadable(file) == file.kind = "ok"

\* load_config lines 56-99
LoadConfig(file) ==
    [loaded      |-> TRUE,
     datasources |-> [i \in 1..Len(file.datasources) |-> LoadDatasource(file.datasources[i])],
     servers     |-> [i \in 1..Len(file.servers) |-> LoadServer(file.servers[i])]]

\* variant: every configured data source is returned
GetEnabledDatasources_All(cfg) == cfg.datasources

\* get_enabled_datasources line 116
GetEnabledDatasources(cfg) == SelectSeq(cfg.datasources, LAMBDA ds : ds.enabled)

Error(kind, subject, field) == [kind |-> kind, subject |-> subject, field |-> field]

\* variant: a repeated name is not reported
DatasourceErrors_NoDuplicates(cfg, i) ==
    LET ds      == cfg.datasources[i]
        missing == SelectSeq(RequiredFields(ds.type), LAMBDA f : f \notin ds.connection)
    IN (IF ds.connection = {} THEN <<Error("no_connection", ds.name, "")>> ELSE <<>>)
       \o [k \in 1..Len(missing) |-> Error("missing_field", ds.name, missing[k])]

\* validate_config lines 169-192: the errors of the i-th data source
DatasourceErrors(cfg, i) ==
    LET ds      == cfg.datasources[i]
        seen    == {cfg.datasources[j].name : j \in 1..(i - 1)}
        missing == SelectSeq(RequiredFields(ds.type), LAMBDA f : f \notin ds.connection)
    IN (IF ds.name \in seen THEN <<Error("duplicate_name", ds.name, "")>> ELSE <<>>)
       \o (IF ds.connection = {} THEN <<Error("no_connection", ds.name, "")>> ELSE <<>>)
       \o [k \in 1..Len(missing) |-> Error("missing_field", ds.name, missing[k])]

\* validate_config lines 197-203: the errors of the i-th server binding
ServerErrors(cfg, i) ==
    LET sv    == cfg.servers[i]
        ports == {cfg.servers[j].port : j \in 1..(i - 1)}
        names == {cfg.datasources[j].name : j \in 1..Len(cfg.datasources)}
    IN (IF sv.port \in ports THEN <<Error("port_conflict", sv.port, "")>> ELSE <<>>)
       \o (IF sv.datasource \notin names
           THEN <<Error("dangling_datasource", sv.datasource, "")>> ELSE <<>>)

\* validate_config lines 166-205, for a configuration that is loaded
ValidateConfig(cfg) ==
    ConcatUpTo([i \in 1..Len(cfg.datasources) |-> DatasourceErrors(cfg, i)],
               Len(cfg.datasources))
    \o ConcatUpTo([i \in 1..Len(cfg.servers) |-> ServerErrors(cfg, i)],
                  Len(cfg.servers))

\* export_config lines 253-258: an optional attribute is written only when
\* it is truthy
ExportOpt(v) == IF v = "some" THEN "some" ELSE "absent"

\* export_config lines 243-276: the text written for a loaded configuration
ExportConfig(cfg) ==
    [kind        |-> "ok",
     datasources |-> [i \in 1..Len(cfg.datasources) |->
                        LET ds == cfg.datasources[i]
                        IN [name       |-> ds.name,
                            type       |-> ds.type,
                            enabled    |-> IF ds.enabled THEN "true" ELSE "false",
                            connection |-> ds.connection,
                            opt        |-> [k \in OptKeys |-> ExportOpt(ds.opt[k])]]],
     servers     |-> [i \in 1..Len(cfg.servers) |->
                        [datasource |-> cfg.servers[i].datasource,
                         port       |-> cfg.servers[i].port,
                         log_level  |-> cfg.servers[i].log_level]]]

\* the methods class ConfigLoader defines
ConfigLoaderMethods ==
    {"load_config", "get_datasource_config", "get_enabled_datasources",
     "get_server_config", "get_connection_string", "validate_config",
     "reload_config", "get_environment_variables", "export_config"}

LoaderHasAttr(m) == m \in ConfigLoaderMethods

\* ------------------------------------------------------------------------
\* configuration files the behaviours start from
\* ------------------------------------------------------------------------
TypeInputs == {"sqlite", "mongodb", "bogus"}

\* a type of the registry and an unknown type
FactoryInputs == {"sqlite", "bogus"}

NoOpt == [k \in OptKeys |-> "absent"]

RawDatasource(name, type, enabled, connection, opt) ==
    [name |-> name, type |-> type, enabled |-> enabled,
     connection |-> connection, opt |-> opt]

RawServer(datasource, port, log_level) ==
    [datasource |-> datasource, port |-> port, log_level |-> log_level]

File(datasources, servers) ==
    [kind |-> "ok", datasources |-> datasources, servers |-> servers]

\* the name of the i-th entry when names follow positions
NameAt(i) == ((i - 1) % NumSources) + 1

SeqsUpTo(S, n) == UNION {[1..m -> S] : m \in 0..n}

\* files whose entries differ in type and in the enabled flag
EnabledFiles ==
    {File([i \in 1..Len(q) |->
              RawDatasource(NameAt(i), q[i][1], q[i][2],
                            Range(RequiredFields(q[i][1])), NoOpt)], <<>>) :
        q \in SeqsUpTo(FactoryInputs \X {"absent", "true", "false"}, MaxDatasources)}

\* the connection mappings tried for a type: complete, lacking its last
\* mandated field, empty
ConnectionInputs(type) ==
    LET req == RequiredFields(type)
    IN {Range(req), {}} \cup
       (IF Len(req) > 0 THEN {Range(SubSeq(req, 1, Len(req) - 1))} ELSE {})

\* files whose entries differ in type and connection mapping, and whose
\* names follow positions or repeat the first name
ConnectionFiles ==
    {File([i \in 1..Len(q) |->
              RawDatasource(IF q[i][1] THEN 1 ELSE NameAt(i), q[i][2][1],
                            "absent", q[i][2][2], NoOpt)], <<>>) :
        q \in SeqsUpTo(BOOLEAN \X UNION {{<<t, c>> : c \in ConnectionInputs(t)} :
                                          t \in TypeInputs},
                       MaxValidated)}

\* files with one data source whose server bindings differ in data source
\* and port
ServerFiles ==
    {File(<<RawDatasource(1, "sqlite", "absent", {"database_path"}, NoOpt)>>, sv) :
        sv \in SeqsUpTo({RawServer(n, p, "DEBUG") : n \in Names, p \in 1..MaxServers},
                        MaxServers)}

\* a valid file whose data source is of a type the validator knows and the
\* registry does not hold
UnregisteredFile ==
    File(<<RawDatasource(1, "elasticsearch", "true", {"host", "port"}, NoOpt)>>, <<>>)

\* a file with a repeated name, a missing mandated field, a repeated port
\* and a binding to a name that is not configured
DefectiveFile ==
    File(<<RawDatasource(1, "sqlite", "absent", {"database_path"}, NoOpt),
           RawDatasource(1, "mongodb", "absent", {"host", "port"}, NoOpt)>>,
         <<RawServer(1, 1, "absent"), RawServer(NumSources, 1, "absent")>>)

\* files whose entries differ in their optional attributes
OptionalFiles ==
    {File([i \in 1..Len(q) |->
              RawDatasource(NameAt(i), "sqlite", q[i][1], {"database_path"},
                            [NoOpt EXCEPT !.tables = q[i][2]])], <<>>) :
        q \in SeqsUpTo({"absent", "false"} \X {"absent", "empty", "some"}, MaxValidated)}
    \cup
    {File(<<RawDatasource(1, "rest_api", "true", {"base_url"},
                          [NoOpt EXCEPT ![k] = v])>>,
          <<RawServer(1, 1, "absent")>>) :
        k \in OptKeys, v \in {"empty", "some"}}

MissingFile   == [kind |-> "missing", datasources |-> <<>>, servers |-> <<>>]
MalformedFile == [kind |-> "malformed", datasources |-> <<>>, servers |-> <<>>]

\* the files the orchestration starts from: data sources of one type that
\* differ in the enabled flag, and no file at all
OrchFiles ==
    {f \in EnabledFiles :
        \A i \in 1..Len(f.datasources) :
            /\ f.datasources[i].type = "sqlite"
            /\ i > 1 => f.datasources[i].enabled # "absent"}
    \cup {MissingFile}

ConfigFiles ==
    EnabledFiles \cup ConnectionFiles \cup ServerFiles \cup OptionalFiles
    \cup {DefectiveFile, UnregisteredFile, MissingFile, MalformedFile}

VARIABLES
    manager,         \* ImprovedDataCenter.manager is set (not None)
    sessions,        \* MCPDataCenterManager.sessions: name -> session
    exit_stack,      \* MCPDataCenterManager.exit_stack: entered contexts
    live,            \* sessions whose subprocess is running
    pipes,           \* sessions whose stdio pipe pair is open
    protocol_state,  \* per session: state of the protocol connection
    released,        \* per session: times its stdio context was exited
    nspawn,          \* subprocesses spawned so far
    exits,           \* times the cleanup scope was exited so far
    op,              \* frame of the operation in progress / last finished
    config_file,     \* the configuration file on disk
    loader,          \* ConfigLoader.config
    connected_sources, \* ImprovedDataCenter.connected_sources
    loop,            \* the orchestration loop over the enabled data sources
    main,            \* position of main() and the exit code of the process
    cfgcall,         \* result of the last configuration / factory operation
    server,          \* one backend variant: its handles and its last call
    fan,             \* a manager operation run as a second asyncio task
    silent           \* the backends that never answer a request

vars == <<manager, sessions, exit_stack, live, pipes, protocol_state,
          released, nspawn, exits, op, config_file, loader,
          connected_sources, loop, main, cfgcall, server, fan, silent>>

\* the second task and the backends' responsiveness
taskvars == <<fan, silent>>

\* what the operations of the manager do not touch
dcvars == <<config_file, loader, connected_sources, loop, main, cfgcall, server,
            taskvars>>

States == {"None", "Uninitialized", "Initializing", "Ready", "Failed", "Closed"}

\* ------------------------------------------------------------------------
\* operation frames
\* ------------------------------------------------------------------------
Frame(name) ==
    [name |-> name, pc |-> "start", arg |-> 0, queries |-> <<>>, sid |-> 0,
     i |-> 1, res |-> <<>>, lookups |-> <<>>, log |-> <<>>, ret |-> None,
     raised |-> FALSE, fault |-> "none", used |-> 0]

Return(f, val) == [f EXCEPT !.pc = "done", !.ret = val]

Raise(f) == [f EXCEPT !.pc = "done", !.raised = TRUE]

Done == op.pc \in {"idle", "done"}

Finished(name) == op.name = name /\ op.pc = "done"

Call(sid, method, out, val) == [sid |-> sid, method |-> method, out |-> out, val |-> val]

\* what a protocol call on a session can do: answer, raise a backend error
\* (the session stays usable), or hit an I/O error (the session is broken).
\* A broken or closed session cannot answer.
CallOutcomes(sid) ==
    IF protocol_state[sid] = "Ready" THEN {"ok", "error", "io_error"}
    ELSE {"error", "io_error"}

\* the protocol state a call leaves behind
AfterCall(sid, out) ==
    IF out = "io_error" /\ protocol_state[sid] = "Ready"
    THEN [protocol_state EXCEPT ![sid] = "Failed"]
    ELSE protocol_state

\* the orchestration loop when no script is running it
NoLoop ==
    [caller |-> "none", pc |-> "idle", enabled |-> <<>>, i |-> 1,
     connected |-> <<>>, tried |-> <<>>, ret |-> "None", raised |-> FALSE]

\* no main() is running
MainStart == [pc |-> "start", code |-> 0]

\* a variant of the given type right after DatabaseServerBase.__init__
\* (database_server_factory.py lines 50-55): connection is None, and no
\* constructor assigns client
NewServer(type) ==
    [type |-> type, connection |-> "None", client |-> "unset",
     last |-> "none", raised |-> FALSE, ret |-> "None", fault |-> "none",
     txn |-> "none"]

\* no configuration / factory operation has run
NoResult ==
    [name |-> "none", raised |-> FALSE, error |-> "none", ret |-> <<>>,
     file |-> MissingFile, cfg |-> NoConfig, arg |-> 0, broken |-> {}]

\* a valid file with one enabled data source
DemoFile == File(<<RawDatasource(1, "sqlite", "true", {"database_path"}, NoOpt)>>, <<>>)

\* the manager and the data center right after construction
Constructed ==
    /\ manager = FALSE
    /\ sessions = <<>>
    /\ exit_stack = <<>>
    /\ live = {}
    /\ pipes = {}
    /\ protocol_state = [s \in Sids |-> "None"]
    /\ released = [s \in Sids |-> 0]
    /\ nspawn = 0
    /\ exits = 0
    /\ op = [Frame("none") EXCEPT !.pc = "idle"]
    /\ loader = NoConfig
    /\ connected_sources = <<>>
    /\ loop = NoLoop
    /\ main = MainStart
    /\ cfgcall = NoResult
    /\ fan = [Frame("none") EXCEPT !.pc = "idle"]

Init ==
    /\ Constructed
    /\ silent = {}
    /\ config_file = DemoFile
    /\ server = NewServer("sqlite")

\* ------------------------------------------------------------------------
\* ImprovedDataCenter.initialize
\* ------------------------------------------------------------------------
\* variant: the manager is created whatever loading and validation said
InitializeSucceeds_Unchecked(file) == TRUE

\* lines 39-46: initialize goes on to create the manager only when
\* config_loader.load() and config_loader.validate() returned and validate
\* reported nothing; a method ConfigLoader does not define raises
\* AttributeError at the call
InitializeSucceeds(file) ==
    /\ LoaderHasAttr("load")
    /\ Loadable(file)
    /\ LoaderHasAttr("validate")
    /\ ValidateConfig(LoadConfig(file)) = <<>>

\* lines 35-58: any exception before the manager is created is caught and
\* False is returned
Initialize ==
    /\ Done
    /\ main.pc \in {"start", "initialize"}
    /\ loop.caller # "test"
    /\ loader' = IF LoaderHasAttr("load") /\ Loadable(config_file)
                 THEN LoadConfig(config_file) ELSE loader
    /\ manager' = (manager \/ InitializeSucceeds(config_file))
    /\ op' = Return(Frame("initialize"),
                    IF InitializeSucceeds(config_file) THEN "True" ELSE "False")
    /\ UNCHANGED <<sessions, exit_stack, live, pipes, protocol_state,
                   released, nspawn, exits>>
    /\ main' = IF main.pc = "initialize"
               THEN IF InitializeSucceeds(config_file)
                    THEN [main EXCEPT !.pc = "connect"]
                    ELSE [pc |-> "finally", code |-> 1]
               ELSE main
    /\ UNCHANGED <<config_file, connected_sources, loop, cfgcall, server, taskvars>>

\* ------------------------------------------------------------------------
\* MCPDataCenterManager.add_data_source
\* ------------------------------------------------------------------------
\* variant: the stdio context is entered outside the exit stack
EnterContext_Unmanaged(stack, kind, sid) ==
    IF kind = "stdio" THEN stack ELSE Append(stack, [kind |-> kind, sid |-> sid])

\* exit_stack.enter_async_context: the entered context is pushed on the stack
EnterContext(stack, kind, sid) == Append(stack, [kind |-> kind, sid |-> sid])

\* variant: no except branch, the failure propagates to the caller
AddFailed_NoExcept(f, fault) == Raise([f EXCEPT !.fault = fault])

\* the except branch: the failure is logged and False is returned
AddFailed(f, fault) == Return([f EXCEPT !.fault = fault], "False")

\* line 27: stdio_client(server_params) is entered: the subprocess is spawned
\* and its pipe pair opened, or the spawn raises and nothing is acquired
AddDataSource(name, ok) ==
    /\ Done
    /\ nspawn < MaxSpawns
    /\ LET sid == nspawn + 1
           f   == [Frame("add_data_source") EXCEPT !.arg = name]
       IN IF ok
          THEN /\ nspawn' = sid
               /\ live' = live \cup {sid}
               /\ pipes' = pipes \cup {sid}
               /\ exit_stack' = EnterContext(exit_stack, "stdio", sid)
               /\ protocol_state' = [protocol_state EXCEPT ![sid] = "Uninitialized"]
               /\ op' = [f EXCEPT !.pc = "session", !.sid = sid]
          ELSE /\ op' = AddFailed(f, "spawn")
               /\ UNCHANGED <<nspawn, live, pipes, exit_stack, protocol_state>>
    /\ UNCHANGED dcvars
    /\ UNCHANGED <<manager, sessions, released, exits>>

\* line 32: ClientSession(read, write) is entered
AddOpenSession(ok) ==
    /\ op.name = "add_data_source"
    /\ op.pc = "session"
    /\ IF ok
       THEN /\ exit_stack' = EnterContext(exit_stack, "session", op.sid)
            /\ op' = [op EXCEPT !.pc = "initialize"]
       ELSE /\ op' = AddFailed(op, "session")
            /\ UNCHANGED exit_stack
    /\ UNCHANGED dcvars
    /\ UNCHANGED <<manager, sessions, live, pipes, protocol_state, released,
                   nspawn, exits>>

\* line 37, request: session.initialize() is sent and awaited
AddInitialize ==
    /\ op.name = "add_data_source"
    /\ op.pc = "initialize"
    /\ protocol_state' = [protocol_state EXCEPT ![op.sid] = "Initializing"]
    /\ op' = [op EXCEPT !.pc = "handshake",
                        !.log = Append(@, Call(op.sid, "initialize", "sent", None))]
    /\ UNCHANGED dcvars
    /\ UNCHANGED <<manager, sessions, exit_stack, live, pipes, released,
                   nspawn, exits>>

\* variant: the session is stored before the handshake is awaited
StoreSession_BeforeHandshake(map, name, sid, ok) == DictSet(map, name, sid)

\* line 40: self.sessions[name] = session is reached only when
\* session.initialize() (line 37) returned
StoreSession(map, name, sid, ok) == IF ok THEN DictSet(map, name, sid) ELSE map

\* lines 37-47, response: the handshake answers or raises; on success the
\* session is stored under name and True is returned
AddHandshake(ok) ==
    /\ op.name = "add_data_source"
    /\ op.pc = "handshake"
    /\ sessions' = StoreSession(sessions, op.arg, op.sid, ok)
    /\ IF ok
       THEN /\ protocol_state' = [protocol_state EXCEPT ![op.sid] = "Ready"]
            /\ op' = Return(op, "True")
       ELSE /\ protocol_state' = [protocol_state EXCEPT ![op.sid] = "Failed"]
            /\ op' = AddFailed(op, "initialize")
    /\ UNCHANGED dcvars
    /\ UNCHANGED <<manager, exit_stack, live, pipes, released, nspawn, exits>>

\* ------------------------------------------------------------------------
\* MCPDataCenterManager.__aexit__ and ImprovedDataCenter.shutdown
\* ------------------------------------------------------------------------
StackSids(stack, kind) == {stack[i].sid : i \in {j \in 1..Len(stack) : stack[j].kind = kind}}

\* variant: the contexts are exited but stay on the stack
StackAfterClose_Kept(stack) == stack

\* AsyncExitStack.__aexit__ pops every entered context; the stack is empty after
StackAfterClose(stack) == <<>>

\* line 21: every context on the stack is exited (last in, first out): a
\* session context closes the protocol connection, a stdio context closes the
\* pipe pair and ends the subprocess.  A context's exit may raise; the stack
\* still unwinds the rest and the exception propagates afterwards.
ExitStackClose(name, fail) ==
    LET procs == StackSids(exit_stack, "stdio")
        all   == procs \cup StackSids(exit_stack, "session")
        f     == [Frame(name) EXCEPT !.i = Len(exit_stack)]
    IN /\ exits < MaxExits
       /\ exits' = exits + 1
       /\ live' = live \ procs
       /\ pipes' = pipes \ procs
       /\ released' = [s \in Sids |-> IF s \in procs THEN released[s] + 1 ELSE released[s]]
       /\ protocol_state' = [s \in Sids |-> IF s \in all THEN "Closed" ELSE protocol_state[s]]
       /\ exit_stack' = StackAfterClose(exit_stack)
       /\ op' = IF fail /\ Len(exit_stack) > 0 THEN Raise(f) ELSE Return(f, None)
       /\ UNCHANGED <<manager, sessions, nspawn>>

\* the manager's cleanup scope is left (async with ... as manager)
AExit(fail) ==
    /\ Done
    /\ ExitStackClose("aexit", fail)
    /\ UNCHANGED dcvars

\* ImprovedDataCenter.shutdown (server_launcher.py lines 295-303); when it is
\* the finally step of main (line 349) the process ends afterwards with the
\* exit code pending
Shutdown(fail) ==
    /\ Done
    /\ main.pc \in {"start", "finally"}
    /\ loop.caller # "test"
    /\ IF manager
       THEN ExitStackClose("shutdown", fail)
       ELSE /\ op' = Return(Frame("shutdown"), None)
            /\ UNCHANGED <<manager, sessions, exit_stack, live, pipes,
                           protocol_state, released, nspawn, exits>>
    /\ main' = IF main.pc = "finally" THEN [main EXCEPT !.pc = "exited"] ELSE main
    /\ UNCHANGED <<config_file, loader, connected_sources, loop, cfgcall, server,
                   taskvars>>

\* ------------------------------------------------------------------------
\* MCPDataCenterManager.list_all_resources
\* ------------------------------------------------------------------------
\* line 51: all_resources = {} and the iteration over sessions.items() begins
ListAllResources ==
    /\ Done
    /\ op' = [Frame("list_all_resources") EXCEPT !.pc = "loop"]
    /\ UNCHANGED dcvars
    /\ UNCHANGED <<manager, sessions, exit_stack, live, pipes, protocol_state,
                   released, nspawn, exits>>

\* lines 54-55: the listing is stored under the session's name
StoreListing(f, name, val) == [f EXCEPT !.res = DictSet(@, name, val), !.i = @ + 1]

\* variant: no try around the call, the first error ends the fan-out
SkipListing_NoTry(f, name) == Raise(f)

\* lines 56-58: the error is printed and logged, the loop goes on
SkipListing(f, name) == [f EXCEPT !.i = @ + 1]

\* lines 52-58: one iteration: session.list_resources() answers or raises
ListAllResourcesStep(out, val) ==
    /\ op.name = "list_all_resources"
    /\ op.pc = "loop"
    /\ op.i <= Len(sessions)
    /\ LET name == sessions[op.i].k
           sid  == sessions[op.i].v
           f    == [op EXCEPT !.log = Append(@, Call(sid, "list_resources", out,
                                                     IF out = "ok" THEN val ELSE None))]
       IN /\ out \in CallOutcomes(sid)
          /\ protocol_state' = AfterCall(sid, out)
          /\ op' = IF out = "ok" THEN StoreListing(f, name, val) ELSE SkipListing(f, name)
    /\ UNCHANGED dcvars
    /\ UNCHANGED <<manager, sessions, exit_stack, live, pipes, released,
                   nspawn, exits>>

\* line 59: return all_resources
ListAllResourcesReturn ==
    /\ op.name = "list_all_resources"
    /\ op.pc = "loop"
    /\ op.i > Len(sessions)
    /\ op' = [op EXCEPT !.pc = "done"]
    /\ UNCHANGED dcvars
    /\ UNCHANGED <<manager, sessions, exit_stack, live, pipes, protocol_state,
                   released, nspawn, exits>>

\* ------------------------------------------------------------------------
\* MCPDataCenterManager.query_resource / call_tool
\* ------------------------------------------------------------------------
\* line 66: content, mime_type = <answer>: only a pair unpacks
Unpack(answer) == IF Len(answer) = 2 THEN answer[1] ELSE "ValueError"

\* the answers read_resource can give: (content, mime_type), or a value of
\* another shape
ReadAnswers == {<<c, "mime">> : c \in Contents} \cup {<<"rows">>}

\* variant: no try around read_resource, the backend error propagates
QueryResource_NoTry(f, source_name, out, answer) ==
    IF DictHas(sessions, source_name)
    THEN LET sid == DictGet(sessions, source_name)
             g   == [f EXCEPT !.log = Append(@, Call(sid, "read_resource", out, None))]
         IN IF out = "ok" /\ Unpack(answer) # "ValueError"
            THEN Return(g, Unpack(answer))
            ELSE Raise(g)
    ELSE Return(f, None)

\* lines 63-72: what query_resource returns and the call it issued, for a
\* backend that behaves as (out, answer)
QueryResource(f, source_name, out, answer) ==
    IF DictHas(sessions, source_name)
    THEN LET sid == DictGet(sessions, source_name)
             g   == [f EXCEPT !.log = Append(@, Call(sid, "read_resource", out, None))]
         IN IF out = "ok" /\ Unpack(answer) # "ValueError"
            THEN Return(g, Unpack(answer))
            ELSE Return(g, None)
    ELSE Return(f, None)

\* the session a targeted call reaches and the state it leaves it in
Routed(source_name, out) ==
    IF DictHas(sessions, source_name)
    THEN /\ out \in CallOutcomes(DictGet(sessions, source_name))
         /\ protocol_state' = AfterCall(DictGet(sessions, source_name), out)
    ELSE /\ out = "error"
         /\ UNCHANGED protocol_state

QueryResourceCall(source_name, out, answer) ==
    /\ Done
    /\ Routed(source_name, out)
    /\ op' = QueryResource([Frame("query_resource") EXCEPT !.arg = source_name],
                           source_name, out, answer)
    /\ UNCHANGED dcvars
    /\ UNCHANGED <<manager, sessions, exit_stack, live, pipes, released,
                   nspawn, exits>>

\* lines 76-85: what call_tool returns and the call it issued
CallTool(f, source_name, out, result) ==
    IF DictHas(sessions, source_name)
    THEN LET sid == DictGet(sessions, source_name)
             g   == [f EXCEPT !.log = Append(@, Call(sid, "call_tool", out, None))]
         IN IF out = "ok" THEN Return(g, result) ELSE Return(g, None)
    ELSE Return(f, None)

CallToolCall(source_name, out, result) ==
    /\ Done
    /\ Routed(source_name, out)
    /\ op' = CallTool([Frame("call_tool") EXCEPT !.arg = source_name],
                      source_name, out, result)
    /\ UNCHANGED dcvars
    /\ UNCHANGED <<manager, sessions, exit_stack, live, pipes, released,
                   nspawn, exits>>

\* ------------------------------------------------------------------------
\* MCPDataCenterManager.cross_source_query
\* ------------------------------------------------------------------------
\* line 89: results = {} and the iteration over queries.items() begins
CrossSourceQuery(queries) ==
    /\ Done
    /\ op' = [Frame("cross_source_query") EXCEPT !.pc = "loop", !.queries = queries]
    /\ UNCHANGED dcvars
    /\ UNCHANGED <<manager, sessions, exit_stack, live, pipes, protocol_state,
                   released, nspawn, exits>>

\* variant: the content is stored without the test
StoreContent_Always(results, source_name, content) ==
    DictSet(results, source_name, content)

\* lines 92-93: if content: results[source_name] = content
StoreContent(results, source_name, content) ==
    IF Truthy(content) THEN DictSet(results, source_name, content) ELSE results

\* lines 90-93: one iteration: query_resource is awaited, its content kept
CrossSourceQueryStep(out, answer) ==
    /\ op.name = "cross_source_query"
    /\ op.pc = "loop"
    /\ op.i <= Len(op.queries)
    /\ LET source_name == op.queries[op.i]
           q == QueryResource(Frame("query_resource"), source_name, out, answer)
       IN /\ Routed(source_name, out)
          /\ op' = [op EXCEPT !.i = @ + 1,
                              !.log = @ \o q.log,
                              !.lookups = Append(@, [k |-> source_name, v |-> q.ret]),
                              !.res = StoreContent(@, source_name, q.ret)]
    /\ UNCHANGED dcvars
    /\ UNCHANGED <<manager, sessions, exit_stack, live, pipes, released,
                   nspawn, exits>>

\* line 94: return results
CrossSourceQueryReturn ==
    /\ op.name = "cross_source_query"
    /\ op.pc = "loop"
    /\ op.i > Len(op.queries)
    /\ op' = [op EXCEPT !.pc = "done"]
    /\ UNCHANGED dcvars
    /\ UNCHANGED <<manager, sessions, exit_stack, live, pipes, protocol_state,
                   released, nspawn, exits>>

\* ------------------------------------------------------------------------
\* ImprovedDataCenter.health_check / list_tools
\* ------------------------------------------------------------------------
\* self.manager.<method>(): the attribute lookup on the manager object raises
\* AttributeError when the class defines no such method
ManagerCall(f, method) == IF HasAttr(method) THEN Return(f, None) ELSE Raise(f)

\* server_launcher.py lines 85-96
HealthCheck ==
    /\ Done
    /\ op' = IF ~manager
             THEN Return(Frame("health_check"), None)
             ELSE ManagerCall(Frame("health_check"), "health_check")
    /\ UNCHANGED dcvars
    /\ UNCHANGED <<manager, sessions, exit_stack, live, pipes, protocol_state,
                   released, nspawn, exits>>

\* server_launcher.py lines 111-122
ListTools ==
    /\ Done
    /\ op' = IF ~manager
             THEN Return(Frame("list_tools"), None)
             ELSE ManagerCall(Frame("list_tools"), "list_all_tools")
    /\ UNCHANGED dcvars
    /\ UNCHANGED <<manager, sessions, exit_stack, live, pipes, protocol_state,
                   released, nspawn, exits>>

\* test_datacenter.py line 37: manager.health_check()
ManagerHealthCheck ==
    /\ Done
    /\ op' = ManagerCall(Frame("manager.health_check"), "health_check")
    /\ UNCHANGED dcvars
    /\ UNCHANGED <<manager, sessions, exit_stack, live, pipes, protocol_state,
                   released, nspawn, exits>>

\* test_datacenter.py line 45: manager.list_all_tools()
ManagerListAllTools ==
    /\ Done
    /\ op' = ManagerCall(Frame("manager.list_all_tools"), "list_all_tools")
    /\ UNCHANGED dcvars
    /\ UNCHANGED <<manager, sessions, exit_stack, live, pipes, protocol_state,
                   released, nspawn, exits>>

Outcomes == {"ok", "error", "io_error"}

Next ==
    \/ Initialize
    \/ \E n \in Names, ok \in BOOLEAN : AddDataSource(n, ok)
    \/ \E ok \in BOOLEAN : AddOpenSession(ok)
    \/ AddInitialize
    \/ \E ok \in BOOLEAN : AddHandshake(ok)
    \/ \E fail \in BOOLEAN : AExit(fail)
    \/ \E fail \in BOOLEAN : Shutdown(fail)
    \/ ListAllResources
    \/ \E out \in Outcomes, val \in Listings : ListAllResourcesStep(out, val)
    \/ ListAllResourcesReturn
    \/ \E n \in Names, out \in Outcomes, a \in ReadAnswers : QueryResourceCall(n, out, a)
    \/ \E n \in Names, out \in Outcomes, r \in ToolResults : CallToolCall(n, out, r)
    \/ \E q \in QuerySets : CrossSourceQuery(q)
    \/ \E out \in Outcomes, a \in ReadAnswers : CrossSourceQueryStep(out, a)
    \/ CrossSourceQueryReturn
    \/ HealthCheck
    \/ ListTools
    \/ ManagerHealthCheck
    \/ ManagerListAllTools

Spec == Init /\ [][Next]_vars

\* ========================================================================
\* Properties
\* ========================================================================
ExitOps == {"aexit", "shutdown"}

\* the operation that just finished exited the manager: __aexit__, or a
\* shutdown that found a manager to exit (server_launcher.py lines 300-301)
Exited ==
    /\ op.name \in ExitOps
    /\ op.pc = "done"
    /\ op.name = "shutdown" => manager

\* C1: add_data_source never raises to its caller; it returns False whenever
\* the spawn, the opening of the client session or the initialize handshake
\* failed, and True only after initialize succeeded and the session was
\* stored under name.
C1_AddNeverRaises ==
    Finished("add_data_source") =>
        /\ ~op.raised
        /\ op.ret \in {"True", "False"}
        /\ (op.ret = "True") <=> (op.sid # 0 /\ protocol_state[op.sid] = "Ready")
        /\ (op.ret = "True") =>
              /\ DictHas(sessions, op.arg)
              /\ DictGet(sessions, op.arg) = op.sid
              /\ \E i \in 1..Len(op.log) : op.log[i].method = "initialize"

\* a handshake failed and add_data_source returned False
C1_Witness ==
    /\ Finished("add_data_source")
    /\ op.ret = "False"
    /\ op.sid # 0
    /\ protocol_state[op.sid] = "Failed"

\* C2: the process and pipe pair of every add_data_source call is on the exit
\* stack before the initialize handshake is attempted, and right after the
\* manager has been exited no process is live and no pipe is open, the ones
\* of never-registered sessions included.
C2_CleanupScope ==
    /\ \A s \in Sids :
          protocol_state[s] \in {"Uninitialized", "Initializing", "Ready", "Failed"}
              => s \in StackSids(exit_stack, "stdio")
    /\ Exited => (live = {} /\ pipes = {})

\* the manager was exited after an add whose handshake failed: its session
\* was never registered, and its process was released
C2_Witness ==
    /\ Finished("aexit")
    /\ op.i >= 2
    /\ sessions = <<>>
    /\ nspawn >= 1
    /\ released[1] = 1
    /\ protocol_state[1] = "Closed"

\* C3: no resource is released twice, and exiting the manager when nothing
\* was entered since the last exit releases nothing and raises nothing.
C3_ReleasedOnce ==
    /\ \A s \in Sids : released[s] <= 1
    /\ \A s \in Sids : released[s] = 1 => s \notin live \cup pipes
    /\ (Exited /\ op.i = 0) => ~op.raised

\* the manager was exited a second time after it had released a session
C3_Witness ==
    /\ Finished("aexit")
    /\ exits = 2
    /\ op.i = 0
    /\ released[1] = 1

\* C4 (as claimed): every session in the map is Ready or Failed, and no call
\* other than initialize reaches a session that was not initialized.
C4_Claim ==
    /\ \A i \in 1..Len(sessions) :
          protocol_state[sessions[i].v] \in {"Ready", "Failed"}
    /\ \A i \in 1..Len(op.log) :
          op.log[i].method # "initialize"
              => protocol_state[op.log[i].sid] \notin {"None", "Uninitialized", "Initializing"}

\* C5 (as claimed): list_all_resources and list_all_tools return one entry
\* per registered session name and do not raise.
C5_Claim ==
    /\ Finished("list_all_resources") => DictKeys(op.res) = DictKeys(sessions)
    /\ (Finished("list_tools") /\ manager) => ~op.raised
    /\ Finished("manager.list_all_tools") =>
          (~op.raised /\ DictKeys(op.res) = DictKeys(sessions))

\* C6: in list_all_resources the call is issued on every registered session,
\* whatever the calls before it did; each listing that came back is returned
\* under its own name; list_all_resources does not raise.
C6_Isolation ==
    Finished("list_all_resources") =>
        /\ ~op.raised
        /\ Len(op.log) = Len(sessions)
        /\ \A i \in 1..Len(op.log) :
              /\ op.log[i].sid = sessions[i].v
              /\ op.log[i].out = "ok" =>
                    /\ DictHas(op.res, sessions[i].k)
                    /\ DictGet(op.res, sessions[i].k) = op.log[i].val

\* the call on the first session raised and the second session still answered
C6_Witness ==
    /\ Finished("list_all_resources")
    /\ Len(op.log) >= 2
    /\ op.log[1].out # "ok"
    /\ op.log[2].out = "ok"
    /\ DictHas(op.res, sessions[2].k)

\* C7 (as claimed): health_check returns a status for every registered
\* session and no exception escapes it.
C7_Claim ==
    ((Finished("health_check") /\ manager) \/ Finished("manager.health_check")) =>
        /\ ~op.raised
        /\ DictKeys(op.res) = DictKeys(sessions)

\* C8: query_resource and call_tool never raise; for an unknown source they
\* return None without a protocol call, for a registered source whose call
\* raises they return None; the session map is left as it was.
C8_TargetedNeverRaise ==
    [][(op' # op /\ op'.name \in {"query_resource", "call_tool"} /\ op'.pc = "done") =>
          /\ ~op'.raised
          /\ sessions' = sessions
          /\ ~DictHas(sessions, op'.arg) => (op'.ret = None /\ op'.log = <<>>)
          /\ DictHas(sessions, op'.arg) =>
                /\ Len(op'.log) = 1
                /\ op'.log[1].sid = DictGet(sessions, op'.arg)
                /\ op'.log[1].out # "ok" => op'.ret = None]_vars

\* read_resource raised on a registered source and query_resource returned None
C8_Witness ==
    /\ Finished("query_resource")
    /\ Len(op.log) = 1
    /\ op.log[1].out # "ok"
    /\ op.ret = None
    /\ ~op.raised

\* C9: in cross_source_query every requested source is looked up, and a
\* source whose lookup returned None is not a key of the result.
C9_OmitFailed ==
    Finished("cross_source_query") =>
        /\ Len(op.lookups) = Len(op.queries)
        /\ \A i \in 1..Len(op.lookups) :
              /\ op.lookups[i].k = op.queries[i]
              /\ op.lookups[i].v = None => ~DictHas(op.res, op.queries[i])

\* the first lookup failed, the second was still made and is in the result
C9_Witness ==
    /\ Finished("cross_source_query")
    /\ Len(op.lookups) = 2
    /\ op.lookups[1].v = None
    /\ op.lookups[2].v = "rows"
    /\ DictHas(op.res, op.queries[2])
    /\ ~DictHas(op.res, op.queries[1])

\* C10 (as claimed): the result of cross_source_query holds exactly the
\* lookups that returned something other than None, empty content included.
C10_Claim ==
    Finished("cross_source_query") =>
        /\ DictKeys(op.res) = {op.lookups[i].k : i \in {j \in 1..Len(op.lookups) : op.lookups[j].v # None}}
        /\ \A i \in 1..Len(op.lookups) :
              op.lookups[i].v # None =>
                  /\ DictHas(op.res, op.lookups[i].k)
                  /\ DictGet(op.res, op.lookups[i].k) = op.lookups[i].v

\* ========================================================================
\* Orchestration (src/server_launcher.py, src/test_datacenter.py)
\* ========================================================================
mgrvars == <<manager, sessions, exit_stack, live, pipes, protocol_state,
             released, nspawn, exits, taskvars>>

\* no manager operation is in progress or was the last to finish
Idle == [Frame("none") EXCEPT !.pc = "idle"]

\* the exception load_config raises for a file it cannot load
LoadError(file) == IF file.kind = "missing" THEN "FileNotFoundError" ELSE "KeyError"

\* config_loader.py lines 113-114, 216-217, 239-240: the configuration is
\* loaded on first use
LoadedOnUse ==
    IF loader.loaded \/ ~Loadable(config_file) THEN loader ELSE LoadConfig(config_file)

\* the load on first use raised
UseRaises == ~loader.loaded /\ ~Loadable(config_file)

\* ConfigLoader.get_enabled_datasources, lines 111-116
GetEnabledDatasourcesCall ==
    /\ Done
    /\ main.pc = "start"
    /\ loop.pc # "run"
    /\ loop.caller # "test"
    /\ loader' = LoadedOnUse
    /\ cfgcall' = [NoResult EXCEPT
                     !.name   = "get_enabled_datasources",
                     !.raised = UseRaises,
                     !.error  = IF UseRaises THEN LoadError(config_file) ELSE "none",
                     !.ret    = IF UseRaises THEN <<>>
                                ELSE GetEnabledDatasources(LoadedOnUse)]
    /\ UNCHANGED <<mgrvars, op, config_file, connected_sources, loop, main, server>>

\* ImprovedDataCenter.connect_datasources, lines 60-66: the enabled sources
\* are read (line 62, outside any try), and without a manager False is
\* returned; main exits with code 1 on False (lines 332-334) and on an
\* exception (lines 345-347)
ConnectDatasources ==
    /\ Done
    /\ main.pc \in {"start", "connect"}
    /\ loop.pc # "run"
    /\ loop.caller # "test"
    /\ loader' = LoadedOnUse
    /\ LET begun == [NoLoop EXCEPT !.caller = "connect_datasources"]
       IN loop' = IF UseRaises
                  THEN [begun EXCEPT !.pc = "done", !.raised = TRUE]
                  ELSE IF ~manager
                  THEN [begun EXCEPT !.pc = "done", !.ret = "False",
                                     !.enabled = GetEnabledDatasources(LoadedOnUse)]
                  ELSE [begun EXCEPT !.pc = "run",
                                     !.enabled = GetEnabledDatasources(LoadedOnUse)]
    /\ main' = IF main.pc = "connect" /\ (UseRaises \/ ~manager)
               THEN [pc |-> "finally", code |-> 1]
               ELSE main
    /\ op' = Idle
    /\ UNCHANGED <<mgrvars, config_file, connected_sources, cfgcall, server>>

\* test_datacenter.py lines 9-18: the script, a process of its own, loads
\* the file with its loader (line 10 raises for a file that cannot be
\* loaded), reads the enabled sources and enters a new manager
TestDatacenter ==
    /\ main.pc = "start"
    /\ op = Idle
    /\ loop = NoLoop
    /\ loader = NoConfig
    /\ nspawn = 0
    /\ loader' = IF Loadable(config_file) THEN LoadConfig(config_file) ELSE loader
    /\ LET begun == [NoLoop EXCEPT !.caller = "test"]
       IN loop' = IF Loadable(config_file)
                  THEN [begun EXCEPT !.pc = "run",
                           !.enabled = GetEnabledDatasources(LoadConfig(config_file))]
                  ELSE [begun EXCEPT !.pc = "done", !.raised = TRUE]
    /\ op' = Idle
    /\ UNCHANGED <<mgrvars, config_file, connected_sources, main, cfgcall, server>>

\* server_launcher.py lines 67-74, test_datacenter.py lines 19-26: the loop
\* calls add_data_source with the name of the next enabled source
LoopAdd(ok) ==
    /\ loop.pc = "run"
    /\ loop.i <= Len(loop.enabled)
    /\ op.name # "add_data_source"
    /\ AddDataSource(loop.enabled[loop.i].name, ok)

\* server_launcher.py lines 75-79, test_datacenter.py lines 27-28: the name
\* is recorded when add_data_source returned True, and the loop goes on
LoopAfterAdd ==
    /\ loop.pc = "run"
    /\ Finished("add_data_source")
    /\ LET ds      == loop.enabled[loop.i]
           success == op.ret = "True"
       IN /\ loop' = [loop EXCEPT
                        !.i = @ + 1,
                        !.tried = Append(@, [ds |-> ds, success |-> success]),
                        !.connected = IF success /\ loop.caller = "test"
                                      THEN Append(@, ds.name) ELSE @]
          /\ connected_sources' =
                IF success /\ loop.caller = "connect_datasources"
                THEN Append(connected_sources, ds.name)
                ELSE connected_sources
    /\ op' = Idle
    /\ UNCHANGED <<mgrvars, config_file, loader, main, cfgcall, server>>

\* the names the caller of the loop has recorded as connected
Recorded == IF loop.caller = "test" THEN loop.connected ELSE connected_sources

\* server_launcher.py lines 82-83: True iff connected_sources is not empty;
\* test_datacenter.py lines 30-34: the script returns early when nothing
\* connected ("False") and goes on otherwise ("True")
LoopEnd ==
    /\ loop.pc = "run"
    /\ loop.i > Len(loop.enabled)
    /\ Done
    /\ loop' = [loop EXCEPT !.pc = "done",
                            !.ret = IF Recorded # <<>> THEN "True" ELSE "False"]
    /\ main' = IF main.pc = "connect"
               THEN IF Recorded # <<>>
                    THEN [main EXCEPT !.pc = "mode"]
                    ELSE [pc |-> "finally", code |-> 1]
               ELSE main
    /\ UNCHANGED <<mgrvars, op, config_file, loader, connected_sources, cfgcall, server>>

\* test_datacenter.py line 16: the `async with` block is left
TestExit(fail) ==
    /\ loop.caller = "test"
    /\ loop.pc = "done"
    /\ ~loop.raised
    /\ exits = 0
    /\ AExit(fail)

\* main, lines 305-326: a new process parses its arguments, builds the data
\* center and installs the signal handlers
MainBegin ==
    /\ main.pc = "start"
    /\ op = Idle
    /\ loop = NoLoop
    /\ loader = NoConfig
    /\ nspawn = 0
    /\ main' = [pc |-> "initialize", code |-> 0]
    /\ UNCHANGED <<mgrvars, op, config_file, loader, connected_sources, loop,
                   cfgcall, server>>

InitOrch ==
    /\ Constructed
    /\ silent = {}
    /\ config_file \in OrchFiles
    /\ server = NewServer("sqlite")

NextOrch ==
    \/ MainBegin
    \/ Initialize
    \/ ConnectDatasources
    \/ \E fail \in BOOLEAN : Shutdown(fail)
    \/ GetEnabledDatasourcesCall
    \/ TestDatacenter
    \/ \E ok \in BOOLEAN : LoopAdd(ok)
    \/ \E ok \in BOOLEAN : AddOpenSession(ok)
    \/ AddInitialize
    \/ \E ok \in BOOLEAN : AddHandshake(ok)
    \/ LoopAfterAdd
    \/ LoopEnd
    \/ \E fail \in BOOLEAN : TestExit(fail)

SpecOrch == InitOrch /\ [][NextOrch]_vars

\* ------------------------------------------------------------------------
\* Properties of the orchestration
\* ------------------------------------------------------------------------
\* the names of the attempts that returned True, in the order of the attempts
Succeeded(tried) ==
    LET won == SelectSeq(tried, LAMBDA t : t.success)
    IN [k \in 1..Len(won) |-> won[k].ds.name]

\* C11 (as claimed): when connect_datasources returns, add_data_source was
\* attempted for every enabled source whatever the earlier attempts did,
\* connected_sources holds exactly the names whose attempt succeeded, and the
\* result is True iff at least one source connected.
C11_Claim ==
    (loop.caller = "connect_datasources" /\ loop.pc = "done" /\ ~loop.raised) =>
        /\ Len(loop.tried) = Len(loop.enabled)
        /\ connected_sources = Succeeded(loop.tried)
        /\ (loop.ret = "True") <=> (connected_sources # <<>>)

\* positions of the enabled data sources of a configuration
EnabledAt(cfg) == {i \in 1..Len(cfg.datasources) : cfg.datasources[i].enabled}

\* the k-th smallest member of a set of positions
Kth(S, k) == CHOOSE i \in S : Cardinality({j \in S : j < i}) = k - 1

\* C12: get_enabled_datasources returns exactly the data sources whose
\* enabled flag is true, in configuration order, and every add_data_source
\* the orchestration loop starts or has finished is for one of them.
C12_OnlyEnabled ==
    /\ (cfgcall.name = "get_enabled_datasources" /\ ~cfgcall.raised) =>
          /\ Len(cfgcall.ret) = Cardinality(EnabledAt(loader))
          /\ \A k \in 1..Len(cfgcall.ret) :
                cfgcall.ret[k] = loader.datasources[Kth(EnabledAt(loader), k)]
    /\ \A k \in 1..Len(loop.tried) :
          /\ loop.tried[k].ds.enabled
          /\ loop.tried[k].ds \in Range(loader.datasources)
    /\ (loop.pc = "run" /\ op.name = "add_data_source") =>
          loop.enabled[loop.i].enabled

\* the loop finished over a file with a disabled entry ahead of an enabled
\* one: the only attempt was for the enabled entry
C12_Witness ==
    /\ loop.caller = "test"
    /\ loop.pc = "done"
    /\ Len(loader.datasources) = 2
    /\ ~loader.datasources[1].enabled
    /\ Len(loop.tried) = 1
    /\ loop.tried[1].ds = loader.datasources[2]

\* the file loads and validate_config reports nothing for it
Validated(file) == Loadable(file) /\ ValidateConfig(LoadConfig(file)) = <<>>

\* C13: in a run of main no subprocess is spawned, and connect_datasources is
\* not reached, unless the configuration loads and validates with zero
\* errors; and a run over a configuration that does not ends with a
\* non-zero exit code.
C13_ConfigErrorsFatal ==
    /\ (main.pc # "start" /\ nspawn > 0) => Validated(config_file)
    /\ main.pc \in {"connect", "mode"} => Validated(config_file)
    /\ (main.pc = "exited" /\ ~Validated(config_file)) => main.code # 0

\* main ran over a file with a duplicate name: it exited with code 1 and
\* nothing was spawned
C13_Witness ==
    /\ main.pc = "exited"
    /\ main.code = 1
    /\ Loadable(config_file)
    /\ ~Validated(config_file)
    /\ GetEnabledDatasources(LoadConfig(config_file)) # <<>>
    /\ nspawn = 0

\* ========================================================================
\* Configuration and factory operations
\* (src/config_loader.py, src/database_server_factory.py)
\* ========================================================================
\* what the operations of the loader and of the factory do not touch
othervars == <<mgrvars, op, connected_sources, loop, main, server>>

\* the outcome of a call that raised
Raised(name, error) ==
    [NoResult EXCEPT !.name = name, !.raised = TRUE, !.error = error]

\* ConfigLoader.load_config, lines 51-99
LoadConfigCall ==
    /\ loader' = IF Loadable(config_file) THEN LoadConfig(config_file) ELSE loader
    /\ cfgcall' = IF Loadable(config_file)
                  THEN [NoResult EXCEPT !.name = "load_config"]
                  ELSE Raised("load_config", LoadError(config_file))
    /\ UNCHANGED <<config_file, othervars>>

\* ConfigLoader.validate_config, lines 155-205: a failed load on first use
\* is reported as the only entry (lines 159-164)
ValidateConfigCall ==
    /\ loader' = LoadedOnUse
    /\ cfgcall' = [NoResult EXCEPT
                     !.name = "validate_config",
                     !.ret  = IF UseRaises
                              THEN <<Error("load_failed", LoadError(config_file), "")>>
                              ELSE ValidateConfig(LoadedOnUse)]
    /\ UNCHANGED <<config_file, othervars>>

\* ConfigLoader.export_config, lines 237-282; `write` says that output_path
\* names the configuration file (lines 278-280)
ExportConfigCall(write) ==
    /\ loader' = LoadedOnUse
    /\ cfgcall' = IF UseRaises
                  THEN Raised("export_config", LoadError(config_file))
                  ELSE [NoResult EXCEPT !.name = "export_config",
                                        !.file = ExportConfig(LoadedOnUse),
                                        !.cfg  = LoadedOnUse]
    /\ config_file' = IF write /\ ~UseRaises
                      THEN ExportConfig(LoadedOnUse)
                      ELSE config_file
    /\ UNCHANGED othervars

\* ConfigLoader.reload_config, lines 207-210; cfg keeps the configuration
\* the file was exported from when the file is the text just exported
ReloadConfigCall ==
    /\ loader' = IF Loadable(config_file) THEN LoadConfig(config_file) ELSE NoConfig
    /\ LET exported == /\ cfgcall.name = "export_config"
                       /\ ~cfgcall.raised
                       /\ cfgcall.file = config_file
           origin   == IF exported THEN cfgcall.cfg ELSE NoConfig
       IN cfgcall' = IF Loadable(config_file)
                     THEN [NoResult EXCEPT !.name = "reload_config", !.cfg = origin]
                     ELSE [Raised("reload_config", LoadError(config_file))
                              EXCEPT !.cfg = origin]
    /\ UNCHANGED <<config_file, othervars>>

\* variant: an unknown type falls back to the SQLite variant
ServerClass_Default(type) ==
    CASE type = "postgresql" -> "PostgreSQLServer"
      [] type = "mysql"      -> "MySQLServer"
      [] type = "mongodb"    -> "MongoDBServer"
      [] type = "redis"      -> "RedisServer"
      [] type = "rest_api"   -> "APIServer"
      [] OTHER               -> "SQLiteServer"

\* SERVER_MAPPING.get(config.type), lines 447-459
ServerClass(type) ==
    CASE type = "postgresql" -> "PostgreSQLServer"
      [] type = "mysql"      -> "MySQLServer"
      [] type = "sqlite"     -> "SQLiteServer"
      [] type = "mongodb"    -> "MongoDBServer"
      [] type = "redis"      -> "RedisServer"
      [] type = "rest_api"   -> "APIServer"
      [] OTHER               -> None

\* DatabaseServerFactory.create_server, lines 456-463; `broken` says that
\* the constructor of the variant raises
CreateServer(ds, broken) ==
    IF ServerClass(ds.type) = None
    THEN [raised |-> TRUE, error |-> "ValueError: Unsupported database type",
          made |-> <<>>]
    ELSE IF broken
    THEN [raised |-> TRUE, error |-> "Exception", made |-> <<>>]
    ELSE [raised |-> FALSE, error |-> "none",
          made |-> <<[class |-> ServerClass(ds.type), name |-> ds.name]>>]

\* create_server on the i-th data source of the loaded configuration
CreateServerCall(i, broken) ==
    /\ loader.loaded
    /\ i \in 1..Len(loader.datasources)
    /\ LET r == CreateServer(loader.datasources[i], broken)
       IN cfgcall' = [NoResult EXCEPT !.name = "create_server", !.arg = i,
                                      !.raised = r.raised, !.error = r.error,
                                      !.ret = r.made]
    /\ UNCHANGED <<config_file, loader, othervars>>

\* the keys connect() of each variant subscripts in config.connection
\* (lines 95-101, 162-168, 221, 275-279, 339-342; APIServer.connect reads
\* none, RedisServer reads password with .get)
ConnectReads(type) ==
    CASE type \in {"postgresql", "mysql"} ->
             {"host", "port", "database", "username", "password"}
      [] type = "sqlite"  -> {"database_path"}
      [] type = "mongodb" -> {"username", "password", "host", "port", "database"}
      [] type = "redis"   -> {"host", "port", "database"}
      [] OTHER            -> {}

\* connect() of the server created for ds: a subscript of a key the mapping
\* lacks raises KeyError; otherwise the driver connects or raises
ConnectOutcome(ds, ok) ==
    IF ~(ConnectReads(ds.type) \subseteq ds.connection)
    THEN [raised |-> TRUE, error |-> "KeyError"]
    ELSE IF ok \/ ds.type = "rest_api"
    THEN [raised |-> FALSE, error |-> "none"]
    ELSE [raised |-> TRUE, error |-> "Exception"]

\* create_server on the i-th data source of the loaded configuration, then
\* connect() on the server made
ConnectCall(i, ok) ==
    /\ loader.loaded
    /\ i \in 1..Len(loader.datasources)
    /\ ServerClass(loader.datasources[i].type) # None
    /\ LET r == ConnectOutcome(loader.datasources[i], ok)
       IN cfgcall' = [NoResult EXCEPT !.name = "connect", !.arg = i,
                                      !.raised = r.raised, !.error = r.error]
    /\ UNCHANGED <<config_file, loader, othervars>>

\* variant: disabled entries are constructed too
Eligible_All(ds) == TRUE

\* create_all_servers line 473
Eligible(ds) == ds.enabled

\* create_all_servers lines 471-481: the loop over the data sources; the
\* names in `broken` are those whose constructor raises
CreateAllServers(cfg, broken) ==
    ConcatUpTo([i \in 1..Len(cfg.datasources) |->
                   IF Eligible(cfg.datasources[i])
                   THEN CreateServer(cfg.datasources[i],
                                     cfg.datasources[i].name \in broken).made
                   ELSE <<>>],
               Len(cfg.datasources))

\* DatabaseServerFactory.create_all_servers, lines 465-481: a loader of its
\* own loads the file (line 469, outside the try)
CreateAllServersCall(broken) ==
    /\ cfgcall' = IF Loadable(config_file)
                  THEN [NoResult EXCEPT
                          !.name   = "create_all_servers",
                          !.cfg    = LoadConfig(config_file),
                          !.broken = broken,
                          !.ret    = CreateAllServers(LoadConfig(config_file), broken)]
                  ELSE Raised("create_all_servers", LoadError(config_file))
    /\ UNCHANGED <<config_file, loader, othervars>>

InitCfg ==
    /\ Constructed
    /\ silent = {}
    /\ config_file \in ConfigFiles
    /\ server = NewServer("sqlite")

NextCfg ==
    \/ LoadConfigCall
    \/ \E i \in 1..MaxDatasources, ok \in BOOLEAN : ConnectCall(i, ok)
    \/ ValidateConfigCall
    \/ GetEnabledDatasourcesCall
    \/ \E write \in BOOLEAN : ExportConfigCall(write)
    \/ ReloadConfigCall
    \/ \E i \in 1..MaxDatasources, broken \in BOOLEAN : CreateServerCall(i, broken)
    \/ \E broken \in SUBSET Names : CreateAllServersCall(broken)

SpecCfg == InitCfg /\ [][NextCfg]_vars

\* ------------------------------------------------------------------------
\* Properties of the configuration and of the factory
\* ------------------------------------------------------------------------
\* the defects validate_config is to report
DuplicateName(cfg) ==
    \E i, j \in 1..Len(cfg.datasources) :
        i # j /\ cfg.datasources[i].name = cfg.datasources[j].name

MissingField(cfg) ==
    \E i \in 1..Len(cfg.datasources) :
        \E f \in Range(RequiredFields(cfg.datasources[i].type)) :
            f \notin cfg.datasources[i].connection

PortConflict(cfg) ==
    \E i, j \in 1..Len(cfg.servers) :
        i # j /\ cfg.servers[i].port = cfg.servers[j].port

DanglingDatasource(cfg) ==
    \E i \in 1..Len(cfg.servers) :
        \A j \in 1..Len(cfg.datasources) :
            cfg.datasources[j].name # cfg.servers[i].datasource

Kinds(errors) == {errors[k].kind : k \in 1..Len(errors)}

RegistryKeys == {"postgresql", "mysql", "sqlite", "mongodb", "redis", "rest_api"}

\* C15: create_server on a type that is not a key of the registry raises the
\* unsupported-type error and constructs nothing; what it constructs is of
\* the class registered for the type.
C15_StrictDispatch ==
    cfgcall.name = "create_server" =>
        LET type == loader.datasources[cfgcall.arg].type
        IN /\ type \notin RegistryKeys =>
                 /\ cfgcall.raised
                 /\ cfgcall.error = "ValueError: Unsupported database type"
                 /\ cfgcall.ret = <<>>
           /\ ~cfgcall.raised =>
                 /\ type \in RegistryKeys
                 /\ Len(cfgcall.ret) = 1
                 /\ cfgcall.ret[1].class = ServerClass(type)

\* create_server was given a type the validator accepts and the registry
\* does not hold
C15_Witness ==
    /\ cfgcall.name = "create_server"
    /\ loader.datasources[cfgcall.arg].type = "elasticsearch"
    /\ ValidateConfig(loader) = <<>>
    /\ cfgcall.raised
    /\ cfgcall.ret = <<>>

\* positions of the entries create_all_servers can construct
Constructible(cfg, broken) ==
    {i \in 1..Len(cfg.datasources) :
        /\ cfg.datasources[i].enabled
        /\ cfg.datasources[i].type \in RegistryKeys
        /\ cfg.datasources[i].name \notin broken}

\* C16: create_all_servers returns one variant for each enabled data source
\* whose construction succeeds, in configuration order, and none for a
\* disabled entry or for an entry whose construction fails, wherever in the
\* file the failing entry stands.
C16_OnePerEnabled ==
    (cfgcall.name = "create_all_servers" /\ ~cfgcall.raised) =>
        LET good == Constructible(cfgcall.cfg, cfgcall.broken)
        IN /\ Len(cfgcall.ret) = Cardinality(good)
           /\ \A k \in 1..Len(cfgcall.ret) :
                 LET ds == cfgcall.cfg.datasources[Kth(good, k)]
                 IN /\ cfgcall.ret[k].name = ds.name
                    /\ cfgcall.ret[k].class = ServerClass(ds.type)

\* three enabled entries, the first of a bad type: the two after it were
\* constructed
C16_Witness ==
    /\ cfgcall.name = "create_all_servers"
    /\ cfgcall.broken = {}
    /\ Len(cfgcall.cfg.datasources) = 3
    /\ \A i \in 1..3 : cfgcall.cfg.datasources[i].enabled
    /\ cfgcall.cfg.datasources[1].type = "bogus"
    /\ Len(cfgcall.ret) = 2

\* C19 (as claimed): a configuration that validates with zero errors is
\* equal, field for field, to the one loaded from its exported text.
C19_Claim ==
    (cfgcall.name = "reload_config" /\ cfgcall.cfg.loaded
     /\ ValidateConfig(cfgcall.cfg) = <<>>) =>
        /\ ~cfgcall.raised
        /\ loader = cfgcall.cfg

\* ========================================================================
\* Backend variants (src/database_server_factory.py, src/database_server.py)
\* ========================================================================
SqlTypes == {"postgresql", "mysql", "sqlite"}

\* the variants with a query tool over self.connection
QueryTypes == SqlTypes \cup {"mongodb", "redis"}

\* a call on the variant begins: the outcome fields are those of this call
Called(sv, name) ==
    [sv EXCEPT !.last = name, !.raised = FALSE, !.ret = "None",
               !.fault = "none", !.txn = "none"]

\* connect() of each variant (lines 91-103, 158-170, 220-223, 271-280,
\* 334-346, 393-395): the driver hands back a connection, or the missing
\* driver module, a missing connection key or the driver raises before
\* anything is assigned
AfterConnect(sv, ok) ==
    LET c == Called(sv, "connect")
    IN IF sv.type = "rest_api" THEN c
       ELSE IF ~ok THEN [c EXCEPT !.raised = TRUE]
       ELSE IF sv.type = "mongodb"
       THEN [c EXCEPT !.client = "open", !.connection = "open"]
       ELSE [c EXCEPT !.connection = "open"]

\* disconnect() of each variant (lines 105-108, 172-175, 225-228, 282-285,
\* 348-351, 397-399).  MongoDBServer tests self.client, an attribute only
\* connect() assigns (line 278); the others test self.connection, which
\* __init__ sets to None, and leave it assigned after close()
AfterDisconnect(sv) ==
    LET c == Called(sv, "disconnect")
    IN IF sv.type = "rest_api" THEN c
       ELSE IF sv.type = "mongodb"
       THEN IF sv.client = "unset"
            THEN [c EXCEPT !.raised = TRUE, !.ret = "AttributeError"]
            ELSE [c EXCEPT !.client = "closed"]
       ELSE IF sv.connection = "None" THEN c
       ELSE [c EXCEPT !.connection = "closed"]

Connect(ok) ==
    /\ server' = AfterConnect(server, ok)
    /\ UNCHANGED <<mgrvars, op, config_file, loader, connected_sources, loop,
                   main, cfgcall>>

Disconnect ==
    /\ server' = AfterDisconnect(server)
    /\ UNCHANGED <<mgrvars, op, config_file, loader, connected_sources, loop,
                   main, cfgcall>>

\* DatabaseServerBase.run, lines 77-86: an exception of connect() or of
\* mcp.run() is logged, and disconnect() runs in the finally step outside
\* the except clause
Run(ok) ==
    /\ server' = [AfterDisconnect(AfterConnect(server, ok)) EXCEPT !.last = "run"]
    /\ UNCHANGED <<mgrvars, op, config_file, loader, connected_sources, loop,
                   main, cfgcall>>

\* where the driver fails during one query
Faults ==
    {"none", "cursor", "execute", "commit", "execute_rollback", "commit_rollback"}

QueryKinds == {"select", "write"}

\* the statement or the commit failed
Failing(fault) == fault \in {"execute", "commit", "execute_rollback", "commit_rollback"}

\* execute_query of the SQL variants (lines 138-153, 200-215, 251-266):
\* the cursor is created before the try block; the except clause calls
\* rollback() and returns the error string; rollback() is not guarded
SqlExecuteQuery(sv, kind, fault) ==
    LET c == [Called(sv, "execute_query") EXCEPT !.fault = fault]
    IN IF sv.connection # "open" \/ fault = "cursor"
       THEN [c EXCEPT !.raised = TRUE]
       ELSE IF fault \in {"execute_rollback", "commit_rollback"}
       THEN [c EXCEPT !.raised = TRUE, !.txn = "pending"]
       ELSE IF fault \in {"execute", "commit"}
       THEN [c EXCEPT !.ret = "Error", !.txn = "rolledback"]
       ELSE IF kind = "select"
       THEN [c EXCEPT !.ret = "rows"]
       ELSE [c EXCEPT !.ret = "done", !.txn = "committed"]

\* execute_query of MongoDBServer (lines 309-329) and execute_command of
\* RedisServer (lines 368-388): the whole body is inside the try block
TryExecuteQuery(sv, fault) ==
    LET c == [Called(sv, "execute_query") EXCEPT !.fault = fault]
    IN IF sv.connection # "open" \/ fault # "none"
       THEN [c EXCEPT !.ret = "Error"]
       ELSE [c EXCEPT !.ret = "rows"]

\* the query tool of the variant is called; a commit can only fail for a
\* statement that is not a SELECT
ExecuteQuery(kind, fault) ==
    /\ server.type \in QueryTypes
    /\ fault \in {"commit", "commit_rollback"} => kind = "write"
    /\ server' = IF server.type \in SqlTypes
                 THEN SqlExecuteQuery(server, kind, fault)
                 ELSE TryExecuteQuery(server, fault)
    /\ UNCHANGED <<mgrvars, op, config_file, loader, connected_sources, loop,
                   main, cfgcall>>

\* where sqlite3 fails during one call of database_server.py's tool: at
\* connect, with an sqlite3.Error at execute or commit, or with another
\* exception at execute
LegacyFaults == {"none", "connect", "execute", "execute_other", "commit"}

\* database_server.py execute_query, lines 33-48: connect() and cursor() are
\* before the try block, only sqlite3.Error is caught, and the connection is
\* closed in the finally step, which discards what was not committed
LegacyExecuteQuery(kind, fault) ==
    /\ fault = "commit" => kind = "write"
    /\ LET c == [Called(server, "database_server.execute_query") EXCEPT !.fault = fault]
       IN server' =
            IF fault = "connect" THEN [c EXCEPT !.raised = TRUE]
            ELSE IF fault = "execute_other"
            THEN [c EXCEPT !.raised = TRUE, !.txn = "discarded"]
            ELSE IF fault \in {"execute", "commit"}
            THEN [c EXCEPT !.ret = "Error", !.txn = "discarded"]
            ELSE IF kind = "select" THEN [c EXCEPT !.ret = "rows"]
            ELSE [c EXCEPT !.ret = "done", !.txn = "committed"]
    /\ UNCHANGED <<mgrvars, op, config_file, loader, connected_sources, loop,
                   main, cfgcall>>

InitVariant ==
    /\ Constructed
    /\ silent = {}
    /\ config_file = DemoFile
    /\ server \in {NewServer(type) : type \in RegistryKeys}

NextVariant ==
    \/ \E ok \in BOOLEAN : Connect(ok)
    \/ Disconnect
    \/ \E ok \in BOOLEAN : Run(ok)
    \/ \E kind \in QueryKinds, fault \in Faults : ExecuteQuery(kind, fault)
    \/ \E kind \in QueryKinds, fault \in LegacyFaults : LegacyExecuteQuery(kind, fault)

SpecVariant == InitVariant /\ [][NextVariant]_vars

\* ------------------------------------------------------------------------
\* Properties of the variants
\* ------------------------------------------------------------------------
\* C17 (as claimed): disconnect() never raises, whether or not a connection
\* is held, and neither does run(), whose finally step calls it.
C17_Claim ==
    server.last \in {"disconnect", "run"} => ~server.raised

\* C18 (as claimed): the query tool never raises, and wherever the driver
\* failed it returns the error string and nothing of the failed statement
\* is committed.
C18_Claim ==
    server.last \in {"execute_query", "database_server.execute_query"} =>
        /\ ~server.raised
        /\ server.fault # "none" =>
              /\ server.ret = "Error"
              /\ server.txn \in {"none", "rolledback", "discarded"}

C21_Claim ==
    [][\A s \in Sids :
          protocol_state[s] = "Closed" =>
              /\ protocol_state'[s] = "Closed"
              /\ \A k \in 1..Len(op'.log) : op'.log[k].sid # s]_vars

\* ========================================================================
\* The manager under the asyncio event loop: two tasks (src/client.py)
\* ========================================================================
\* One task runs add_data_source (frame op), the other a fan-out or a
\* targeted operation (frame fan).  A task runs without interruption from one
\* await to the next; at an await the event loop may run the other task.
\* A request to a backend is answered only if the backend is not silent:
\* neither ClientSession nor the manager sets a timeout.

FanDone == fan.pc \in {"idle", "done"}

\* the handshake response of add_data_source arrives (lines 37-47)
TaskHandshake(ok) ==
    /\ op.sid \notin silent
    /\ AddHandshake(ok)

\* line 51-52: all_resources = {} and iter(self.sessions.items()): the
\* iterator remembers the dict's size
FanListAllResources ==
    /\ FanDone
    /\ fan' = [Frame("list_all_resources") EXCEPT !.pc = "loop",
                                                  !.used = Len(sessions)]
    /\ UNCHANGED <<manager, sessions, exit_stack, live, pipes, protocol_state,
                   released, nspawn, exits, op, silent>>
    /\ UNCHANGED <<config_file, loader, connected_sources, loop, main, cfgcall,
                   server>>

\* line 52-54: next() of the dict iterator raises RuntimeError when the
\* dict's size changed since iter(), else yields the next item or ends the
\* loop (line 59); for an item, session.list_resources() is sent and awaited
FanNext ==
    /\ fan.name = "list_all_resources"
    /\ fan.pc = "loop"
    /\ fan' = IF Len(sessions) # fan.used
              THEN Raise([fan EXCEPT !.fault = "RuntimeError"])
              ELSE IF fan.i > Len(sessions)
              THEN [fan EXCEPT !.pc = "done"]
              ELSE [fan EXCEPT !.pc = "await",
                               !.arg = sessions[fan.i].k,
                               !.sid = sessions[fan.i].v,
                               !.log = Append(@, Call(sessions[fan.i].v,
                                                      "list_resources", "sent", None))]
    /\ UNCHANGED <<manager, sessions, exit_stack, live, pipes, protocol_state,
                   released, nspawn, exits, op, silent>>
    /\ UNCHANGED <<config_file, loader, connected_sources, loop, main, cfgcall,
                   server>>

\* the outcome of the request in flight replaces its log entry
Answered(f, out, val) ==
    [f EXCEPT !.log[Len(f.log)].out = out,
              !.log[Len(f.log)].val = IF out = "ok" THEN val ELSE None]

\* lines 54-58: the answer of list_resources arrives, or the call raises
FanReturn(out, val) ==
    /\ fan.name = "list_all_resources"
    /\ fan.pc = "await"
    /\ fan.sid \notin silent
    /\ out \in CallOutcomes(fan.sid)
    /\ protocol_state' = AfterCall(fan.sid, out)
    /\ LET f == [Answered(fan, out, val) EXCEPT !.pc = "loop"]
       IN fan' = IF out = "ok" THEN StoreListing(f, fan.arg, val)
                 ELSE SkipListing(f, fan.arg)
    /\ UNCHANGED <<manager, sessions, exit_stack, live, pipes, released,
                   nspawn, exits, op, silent>>
    /\ UNCHANGED <<config_file, loader, connected_sources, loop, main, cfgcall,
                   server>>

\* lines 63-66: query_resource: an unknown source returns None at once; for
\* a known one read_resource is sent and awaited
FanQueryResource(source_name) ==
    /\ FanDone
    /\ LET f == [Frame("query_resource") EXCEPT !.arg = source_name]
       IN fan' = IF DictHas(sessions, source_name)
                 THEN [f EXCEPT !.pc = "await",
                                !.sid = DictGet(sessions, source_name),
                                !.log = <<Call(DictGet(sessions, source_name),
                                               "read_resource", "sent", None)>>]
                 ELSE Return(f, None)
    /\ UNCHANGED <<manager, sessions, exit_stack, live, pipes, protocol_state,
                   released, nspawn, exits, op, silent>>
    /\ UNCHANGED <<config_file, loader, connected_sources, loop, main, cfgcall,
                   server>>

\* lines 66-72: the answer of read_resource arrives, or the call raises
FanQueryReturn(out, answer) ==
    /\ fan.name = "query_resource"
    /\ fan.pc = "await"
    /\ fan.sid \notin silent
    /\ out \in CallOutcomes(fan.sid)
    /\ protocol_state' = AfterCall(fan.sid, out)
    /\ fan' = IF out = "ok" /\ Unpack(answer) # "ValueError"
              THEN Return(Answered(fan, out, None), Unpack(answer))
              ELSE Return(Answered(fan, out, None), None)
    /\ UNCHANGED <<manager, sessions, exit_stack, live, pipes, released,
                   nspawn, exits, op, silent>>
    /\ UNCHANGED <<config_file, loader, connected_sources, loop, main, cfgcall,
                   server>>

InitTasks ==
    /\ Constructed
    /\ silent \in SUBSET Sids
    /\ config_file = DemoFile
    /\ server = NewServer("sqlite")

NextTasks ==
    \/ \E n \in Names, ok \in BOOLEAN : AddDataSource(n, ok)
    \/ \E ok \in BOOLEAN : AddOpenSession(ok)
    \/ AddInitialize
    \/ \E ok \in BOOLEAN : TaskHandshake(ok)
    \/ FanListAllResources
    \/ FanNext
    \/ \E out \in Outcomes, val \in Listings : FanReturn(out, val)
    \/ \E n \in Names : FanQueryResource(n)
    \/ \E out \in Outcomes, answer \in ReadAnswers : FanQueryReturn(out, answer)

SpecTasks == InitTasks /\ [][NextTasks]_vars

\* ------------------------------------------------------------------------
\* Concurrency of the fan-out
\* ------------------------------------------------------------------------
\* C22 (as claimed): a fan-out issues its per-source calls concurrently and
\* joins them: whenever list_all_resources is suspended waiting for a
\* source, the call to every source it iterates over has been issued.
C22_Claim ==
    (fan.name = "list_all_resources" /\ fan.pc = "await")
        => Len(fan.log) = fan.used

\* ------------------------------------------------------------------------
\* Termination
\* ------------------------------------------------------------------------
\* the steps that continue the add_data_source task after an await
AddStep ==
    \/ \E ok \in BOOLEAN : AddOpenSession(ok)
    \/ AddInitialize
    \/ \E ok \in BOOLEAN : TaskHandshake(ok)

\* the steps that continue the fan-out or targeted task after an await
FanStep ==
    \/ FanNext
    \/ \E out \in Outcomes, val \in Listings : FanReturn(out, val)
    \/ \E out \in Outcomes, answer \in ReadAnswers : FanQueryReturn(out, answer)

\* the event loop resumes every task whose awaited result has arrived, and
\* a backend that is not silent answers every request
FairTasks == SpecTasks /\ WF_vars(AddStep) /\ WF_vars(FanStep)

\* C23 (as claimed): every cross-process call is bounded by a timeout, so
\* under fairness add_data_source and every fan-out or targeted operation
\* that has started eventually returns, also when a backend never responds.
C23_Claim ==
    /\ (op.name = "add_data_source" /\ op.pc # "done") ~> (op.pc = "done")
    /\ (~FanDone) ~> FanDone

\* ------------------------------------------------------------------------
\* The session map during a fan-out
\* ------------------------------------------------------------------------
\* C24 (as claimed): while list_all_resources has not finished, a concurrent
\* add_data_source does not mutate the session map, and the fan-out does
\* not raise because the map changed during its iteration.
C24_Claim ==
    [][(fan.name = "list_all_resources" /\ fan.pc \in {"loop", "await"})
          => /\ sessions' = sessions
             /\ ~fan'.raised]_vars

\* ------------------------------------------------------------------------
\* Validation against the variants (src/config_loader.py,
\* src/database_server_factory.py)
\* ------------------------------------------------------------------------
\* C25 (as claimed): connect() on a data source of a configuration that
\* validate_config accepts with zero errors never fails for a field that is
\* missing from the connection mapping.
C25_Claim ==
    (cfgcall.name = "connect" /\ ValidateConfig(loader) = <<>>)
        => cfgcall.error # "KeyError"

\* ------------------------------------------------------------------------
\* Frame of a failed add_data_source (src/client.py)
\* ------------------------------------------------------------------------
\* C26: no step of an add_data_source that has not returned True changes
\* the session map: a failed add adds no key, and a session registered
\* before under the same name stays in the map.
C26_FailedAddFrame ==
    [][(/\ op'.name = "add_data_source"
        /\ op' # op
        /\ ~(op'.pc = "done" /\ op'.ret = "True"))
          => sessions' = sessions]_vars

\* a failed handshake for a name that is registered: the session registered
\* before is still the one in the map
C26_Witness ==
    /\ Finished("add_data_source")
    /\ op.ret = "False"
    /\ op.fault = "initialize"
    /\ DictHas(sessions, op.arg)
    /\ DictGet(sessions, op.arg) # op.sid

\* ------------------------------------------------------------------------
\* Type tags of validation and of the factory
\* ------------------------------------------------------------------------
\* C28 (as claimed): create_server does not raise the unsupported-type
\* error for an entry of a configuration that validate_config accepts with
\* zero errors.
C28_Claim ==
    (cfgcall.name = "create_server" /\ ValidateConfig(loader) = <<>>)
        => cfgcall.error # "ValueError: Unsupported database type"

\* ------------------------------------------------------------------------
\* Startup of the data center (src/server_launcher.py)
\* ------------------------------------------------------------------------
\* C27 (as claimed): initialize returns True exactly when the configuration
\* file loads and validates with zero errors, and then it leaves a manager
\* whose cleanup scope has been entered.
C27_Claim ==
    Finished("initialize") =>
        /\ (op.ret = "True") <=> Validated(config_file)
        /\ (op.ret = "True") => manager

====
